---- MODULE Spec2Model ----
(***************************************************************************)
(* Model of InputSystemImpl (src/src/engine/input_system.cpp): the device  *)
(* registry (m_devices, m_to_remove), the per-frame event queue (m_events),*)
(* the cursor position and the enabled flag, driven by an arbitrary caller.*)
(*                                                                         *)
(* Devices are pointer values (addresses).  LUMIX_DELETE is observed       *)
(* through the counter released[d] of the object now at d; a delete of an  *)
(* object already deleted, or a virtual call through a pointer to one, is  *)
(* undefined behaviour and is modelled as a choice between carrying on and *)
(* crashing at that point.  The allocator may give a new device object the *)
(* address of a deleted one (NewDevice); a pointer to the deleted object   *)
(* that is still held then points at the new object.  ASSERT is the fatal  *)
(* assertion of the debug build (spec section 7).                          *)
(***************************************************************************)
EXTENDS Integers, Sequences, FiniteSets, TLC

VARIABLES
    m_devices,      \* Array<Device*>: the active device list
    m_to_remove,    \* Array<Device*>: devices marked by removeDevice
    m_events,       \* Array<Event>: the event queue of the current frame
    m_is_enabled,   \* bool
    m_cursor_pos,   \* Vec2
    status,         \* "running", "faulted" (ASSERT), "crashed" (UB), "destroyed"
    released,       \* device -> number of LUMIX_DELETE calls on the object at this
                    \* address: 0 (it is alive), 1, or 2 for twice or more
    regOrder,       \* history: the arguments of the addDevice calls, in call order
    removeCalls,    \* history: device -> number of removeDevice calls that marked it
    strangerRemoved,\* history: removeDevice was called on a device not in m_devices
    registered,     \* history: the addresses whose object the caller has passed to
                    \* addDevice
    misadded,       \* history: addDevice was passed a device object that the caller
                    \* had passed to addDevice before
    injected,       \* history: the queue holds an event that did not come from
                    \* addDevice or removeDevice
    lastUpdate,     \* history: the steps of the update call just made, in execution
                    \* order; empty when the last call was not update
    ubDone,         \* history: a call has executed undefined behaviour (a delete of
                    \* a deleted object or a virtual call through a pointer to one)
    twin            \* a second system, constructed by the same constructor on memory
                    \* of its own and given the same calls except that it is never
                    \* given an enable call

vars == <<m_devices, m_to_remove, m_events, m_is_enabled, m_cursor_pos, status,
          released, regOrder, removeCalls, strangerRemoved, registered, misadded,
          injected, lastUpdate, ubDone, twin>>

---------------------------------------------------------------------------
(* Bounds of the model *)

NumExternal == 3
MaxToRemove == 2
MaxEvents == 2

---------------------------------------------------------------------------
(* Device identities *)

m_keyboard_device == 1
m_mouse_device == 2

BuiltIns == {m_keyboard_device, m_mouse_device}
External == (m_mouse_device + 1) .. (m_mouse_device + NumExternal)
Devices == BuiltIns \cup External

CursorPositions == {<<0, 0>>, <<3, 7>>}

Range(s) == {s[i] : i \in 1 .. Len(s)}

Count(s, x) == Cardinality({i \in 1 .. Len(s) : s[i] = x})

---------------------------------------------------------------------------
(* Events *)

DeviceAddedEvent(device) == [type |-> "DEVICE_ADDED", device |-> device]

DeviceRemovedEvent(device) == [type |-> "DEVICE_REMOVED", device |-> device]

\* What a device's own update(dt) enqueues when it produces input.
ButtonEvent(device) == [type |-> "BUTTON", device |-> device]

AxisEvent(device) == [type |-> "AXIS", device |-> device]

\* The events a caller passes to injectEvent directly: input of the first device
\* it has added or will add.
InjectableEvents == {AxisEvent(m_mouse_device + 1)}

---------------------------------------------------------------------------
(* Array operations *)

push(arr, item) == Append(arr, item)

\* Array::eraseItem: erase the first element equal to item, keeping the order
\* of the others; nothing happens when no element equals item.
eraseItem(arr, item) ==
    IF \E i \in 1 .. Len(arr) : arr[i] = item
    THEN LET i == CHOOSE k \in 1 .. Len(arr) :
                      arr[k] = item /\ \A j \in 1 .. (k - 1) : arr[j] # item
         IN SubSeq(arr, 1, i - 1) \o SubSeq(arr, i + 1, Len(arr))
    ELSE arr

---------------------------------------------------------------------------
(* Constructor *)

ConstructedDevices == push(push(<<>>, m_keyboard_device), m_mouse_device)

\* The second system after its constructor; cursor_pos is whatever its memory held.
TwinConstructed(cursor_pos) ==
    [devices |-> ConstructedDevices, to_remove |-> <<>>, events |-> <<>>,
     is_enabled |-> FALSE, cursor_pos |-> cursor_pos,
     released |-> [d \in Devices |-> 0]]

Init ==
    /\ m_devices = ConstructedDevices
    /\ m_to_remove = <<>>
    /\ m_events = <<>>
    /\ m_is_enabled = FALSE
    /\ m_cursor_pos \in CursorPositions    \* not initialised by the constructor
    /\ status = "running"
    /\ released = [d \in Devices |-> 0]
    /\ regOrder = <<>>
    /\ removeCalls = [d \in Devices |-> 0]
    /\ strangerRemoved = FALSE
    /\ registered = {}
    /\ misadded = FALSE
    /\ injected = FALSE
    /\ lastUpdate = <<>>
    /\ ubDone = FALSE
    /\ \E cursor_pos \in CursorPositions :    \* its own uninitialised memory
            twin = TwinConstructed(cursor_pos)

---------------------------------------------------------------------------
(* enable, setCursorPosition, injectEvent *)

\* Mutant: the event is put at the head of the queue.
injectEventAtHead(events, event) == <<event>> \o events

injectEvent(events, event) == push(events, event)

\* Mutant: disabling the system drops the queued events.
EnableDropsEvents(enabled) ==
    /\ status = "running"
    /\ m_is_enabled' = enabled
    /\ m_events' = IF enabled THEN m_events ELSE <<>>
    /\ lastUpdate' = <<>>
    /\ UNCHANGED <<m_devices, m_to_remove, m_cursor_pos, status, released,
                   regOrder, removeCalls, strangerRemoved, registered, misadded, injected,
                   ubDone, twin>>

Enable(enabled) ==
    /\ status = "running"
    /\ m_is_enabled' = enabled
    /\ lastUpdate' = <<>>
    /\ UNCHANGED <<m_devices, m_to_remove, m_events, m_cursor_pos, status, released,
                   regOrder, removeCalls, strangerRemoved, registered, misadded, injected,
                   ubDone, twin>>

SetCursorPosition(pos) ==
    /\ status = "running"
    /\ m_cursor_pos' = pos
    /\ lastUpdate' = <<>>
    /\ twin' = [twin EXCEPT !.cursor_pos = pos]
    /\ UNCHANGED <<m_devices, m_to_remove, m_events, m_is_enabled, status, released,
                   regOrder, removeCalls, strangerRemoved, registered, misadded, injected,
                   ubDone>>

InjectEvent(event) ==
    /\ status = "running"
    /\ Len(m_events) < MaxEvents
    /\ m_events' = injectEvent(m_events, event)
    /\ injected' = TRUE
    /\ lastUpdate' = <<>>
    /\ twin' = [twin EXCEPT !.events = injectEvent(@, event)]
    /\ UNCHANGED <<m_devices, m_to_remove, m_is_enabled, m_cursor_pos, status, released,
                   regOrder, removeCalls, strangerRemoved, registered, misadded, ubDone>>

---------------------------------------------------------------------------
(* addDevice *)

\* Mutant: the device is put right behind the two built-ins.
AddDeviceDevicesBehindBuiltIns(devices, device) ==
    SubSeq(devices, 1, 2) \o <<device>> \o SubSeq(devices, 3, Len(devices))

\* Mutant: the device is put at the head of the list.
AddDeviceDevicesAtHead(devices, device) == <<device>> \o devices

AddDeviceDevices(devices, device) == push(devices, device)

AddDeviceEvents(events, device) == injectEvent(events, DeviceAddedEvent(device))

\* addDevice takes whatever pointer it is given: a device that is listed already,
\* or one that has been deleted, is pushed like any other.  Addresses are arbitrary,
\* so those never passed to addDevice before are named in the order in which they
\* are first passed.
CallerMayAdd(device) ==
    device \notin Range(regOrder) =>
        device = m_mouse_device + Cardinality(Range(regOrder)) + 1

\* The caller creates a device object and the allocator puts it at the address of
\* a deleted one: the pointers to the deleted object now point at a live object.
NewDevice(device) ==
    /\ status = "running"
    /\ released[device] > 0
    /\ released' = [released EXCEPT ![device] = 0]
    /\ twin' = [twin EXCEPT !.released[device] = 0]
    /\ registered' = registered \ {device}
    /\ lastUpdate' = <<>>
    /\ UNCHANGED <<m_devices, m_to_remove, m_events, m_is_enabled, m_cursor_pos, status,
                   regOrder, removeCalls, strangerRemoved, misadded, injected, ubDone>>

addDevice(device) ==
    /\ status = "running"
    /\ CallerMayAdd(device)
    /\ Len(m_events) < MaxEvents
    /\ m_devices' = AddDeviceDevices(m_devices, device)
    /\ m_events' = AddDeviceEvents(m_events, device)
    /\ regOrder' = Append(regOrder, device)
    /\ registered' = registered \cup {device}
    /\ misadded' = (misadded \/ device \in registered)
    /\ lastUpdate' = <<>>
    /\ twin' = [twin EXCEPT !.devices = AddDeviceDevices(@, device),
                            !.events = AddDeviceEvents(@, device)]
    /\ UNCHANGED <<m_to_remove, m_is_enabled, m_cursor_pos, status, released,
                   removeCalls, strangerRemoved, injected, ubDone>>

\* addDevice(device), as one of at most NumExternal addDevice calls.
AddDevice(device) ==
    /\ Len(regOrder) < NumExternal
    /\ addDevice(device)

---------------------------------------------------------------------------
(* removeDevice *)

\* Mutant: the second ASSERT left out.
RemoveDeviceAssertsKeyboardOnly(device) == device # m_keyboard_device

\* ASSERT(device != m_keyboard_device); ASSERT(device != m_mouse_device);
RemoveDeviceAsserts(device) ==
    /\ device # m_keyboard_device
    /\ device # m_mouse_device

RemoveDeviceToRemove(to_remove, device) == push(to_remove, device)

RemoveDeviceEvents(events, device) == injectEvent(events, DeviceRemovedEvent(device))

RemoveDevice(device) ==
    /\ status = "running"
    /\ lastUpdate' = <<>>
    /\ IF RemoveDeviceAsserts(device)
       THEN /\ Len(m_to_remove) < MaxToRemove
            /\ Len(m_events) < MaxEvents
            /\ m_to_remove' = RemoveDeviceToRemove(m_to_remove, device)
            /\ m_events' = RemoveDeviceEvents(m_events, device)
            /\ removeCalls' = [removeCalls EXCEPT ![device] = @ + 1]
            /\ strangerRemoved' = (strangerRemoved \/ device \notin Range(m_devices))
            /\ twin' = [twin EXCEPT !.to_remove = RemoveDeviceToRemove(@, device),
                                    !.events = RemoveDeviceEvents(@, device)]
            /\ UNCHANGED status
       ELSE /\ status' = "faulted"
            /\ UNCHANGED <<m_to_remove, m_events, removeCalls, strangerRemoved, twin>>
    /\ UNCHANGED <<m_devices, m_is_enabled, m_cursor_pos, released, regOrder,
                   registered, misadded, injected, ubDone>>

---------------------------------------------------------------------------
(* update *)

\* LUMIX_DELETE on every element of a list, in list order.  The count of a device
\* stays at 2 from its second deletion on.
RECURSIVE DeleteAll(_, _)
DeleteAll(rel, list) ==
    IF list = <<>> THEN rel
    ELSE DeleteAll([rel EXCEPT ![Head(list)] = IF @ < 2 THEN @ + 1 ELSE @],
                   Tail(list))

\* Mutant: only the first pending device is erased.
EraseFirstOnly(devices, list) ==
    IF list = <<>> THEN devices ELSE eraseItem(devices, Head(list))

RECURSIVE EraseAll(_, _)
EraseAll(devices, list) ==
    IF list = <<>> THEN devices
    ELSE EraseAll(eraseItem(devices, Head(list)), Tail(list))

Steps(kind, list) == [i \in 1 .. Len(list) |-> <<kind, list[i]>>]

\* The state update(dt) works on: st.devices, st.to_remove, st.events, st.released,
\* st.log (the steps taken so far) and st.ub (undefined behaviour has happened).

\* Mutant: the pending devices are released but stay in the device list.
FinalizeRemovalsKeepsListed(st) ==
    LET rel == DeleteAll(st.released, st.to_remove)
    IN [st EXCEPT !.released = rel,
                  !.log = st.log \o Steps("finalize", st.to_remove),
                  !.ub = st.ub \/ \E d \in Range(st.to_remove) : rel[d] > 1]

\* for (Device* device : m_to_remove) { m_devices.eraseItem(device); LUMIX_DELETE(..); }
FinalizeRemovals(st) ==
    LET rel == DeleteAll(st.released, st.to_remove)
    IN [st EXCEPT !.devices = EraseAll(st.devices, st.to_remove),
                  !.released = rel,
                  !.log = st.log \o Steps("finalize", st.to_remove),
                  !.ub = st.ub \/ \E d \in Range(st.to_remove) : rel[d] > 1]

\* Mutant: the queue is not cleared.
ClearEventsLeftOut(st) == st

\* m_events.clear();
ClearEvents(st) ==
    [st EXCEPT !.events = <<>>, !.log = Append(st.log, <<"clear">>)]

\* Device::update(dt): empty for the mouse and the keyboard; another device may
\* produce input, which it reports through injectEvent.
DeviceUpdate(events, device, producers) ==
    IF device \in BuiltIns \/ device \notin producers THEN events
    ELSE injectEvent(events, ButtonEvent(device))

RECURSIVE UpdateEach(_, _, _)
UpdateEach(events, devices, producers) ==
    IF devices = <<>> THEN events
    ELSE UpdateEach(DeviceUpdate(events, Head(devices), producers),
                    Tail(devices), producers)

\* for (Device* device : m_devices) device->update(dt);
UpdateDevices(st, producers) ==
    [st EXCEPT !.events = UpdateEach(st.events, st.devices, producers),
               !.log = st.log \o Steps("update", st.devices),
               !.ub = st.ub \/ \E d \in Range(st.devices) : st.released[d] > 0]

\* ControllerDevice::frame(dt): the controller source is advanced.
ControllerFrame(st) ==
    [st EXCEPT !.log = Append(st.log, <<"frame">>)]

UpdateBody(st, producers) ==
    ControllerFrame(UpdateDevices(ClearEvents(FinalizeRemovals(st)), producers))

\* The passes of a loop of LUMIX_DELETE calls over a list in which the call is given
\* an object that is already deleted, by an earlier call or by an earlier pass.
DoubleDeletes(rel, list) ==
    {n \in 1 .. Len(list) : DeleteAll(rel, SubSeq(list, 1, n - 1))[list[n]] > 0}

\* The call stopped inside LUMIX_DELETE in the n-th pass of the first loop: the
\* entries up to the n-th have been erased from the list and deleted, those behind
\* it have not been touched.
CrashInDelete(st, n) ==
    [FinalizeRemovals([st EXCEPT !.to_remove = SubSeq(st.to_remove, 1, n)])
        EXCEPT !.to_remove = st.to_remove]

\* The passes of the second loop in which update(dt) is called through a pointer to
\* a deleted object.
DanglingUpdates(st) ==
    {i \in 1 .. Len(st.devices) : st.released[st.devices[i]] > 0}

\* The call stopped in the virtual call of the i-th pass of the second loop: the
\* devices in front of the i-th have been updated.
CrashInUpdate(st, producers, i) ==
    [UpdateDevices([st EXCEPT !.devices = SubSeq(st.devices, 1, i - 1)], producers)
        EXCEPT !.devices = st.devices, !.ub = TRUE]

\* The states in which the call can stop when its undefined behaviour crashes the
\* program: at any of the points where the behaviour is undefined.
UpdateCrash(st, producers) ==
    LET s2 == ClearEvents(FinalizeRemovals(st))
    IN {CrashInDelete(st, n) : n \in DoubleDeletes(st.released, st.to_remove)}
       \cup {CrashInUpdate(s2, producers, i) : i \in DanglingUpdates(s2)}

UpdateEntry ==
    [devices |-> m_devices, to_remove |-> m_to_remove, events |-> m_events,
     released |-> released, log |-> <<>>, ub |-> FALSE]

\* update(dt) on the second system, whose devices produce the same input.
TwinUpdated(tw, producers) ==
    LET done == UpdateBody([devices |-> tw.devices, to_remove |-> tw.to_remove,
                            events |-> tw.events, released |-> tw.released,
                            log |-> <<>>, ub |-> FALSE], producers)
    IN [tw EXCEPT !.devices = done.devices, !.to_remove = done.to_remove,
                  !.events = done.events, !.released = done.released]

\* producers: the devices whose update(dt) produces input in this frame.
Update(producers) ==
    /\ status = "running"
    /\ producers \subseteq Range(m_devices)
    /\ LET done == UpdateBody(UpdateEntry, producers)
           crash == UpdateCrash(UpdateEntry, producers)
       IN /\ Len(done.events) <= MaxEvents
          /\ \E st \in {done} \cup crash :
                /\ status' = (IF st = done THEN "running" ELSE "crashed")
                /\ m_devices' = st.devices
                /\ m_to_remove' = st.to_remove
                /\ m_events' = st.events
                /\ released' = st.released
                /\ lastUpdate' = st.log
                /\ ubDone' = (ubDone \/ st.ub)
          /\ injected' = (producers \cap Range(done.devices) # {})
    /\ twin' = TwinUpdated(twin, producers)
    /\ UNCHANGED <<m_is_enabled, m_cursor_pos, regOrder, removeCalls, strangerRemoved,
                   registered, misadded>>

---------------------------------------------------------------------------
(* destructor *)

\* for (Device* device : m_devices) LUMIX_DELETE(m_allocator, device);
DestroyReleased(rel, devices) == DeleteAll(rel, devices)

\* The destructor stopped inside LUMIX_DELETE in the n-th pass of its loop: the
\* devices up to the n-th have been deleted, those behind it have not.
DestroyCrash(rel, devices, n) == DestroyReleased(rel, SubSeq(devices, 1, n))

Destroy ==
    /\ status = "running"
    /\ \/ /\ status' = "destroyed"
          /\ released' = DestroyReleased(released, m_devices)
       \/ \E n \in DoubleDeletes(released, m_devices) :
             /\ status' = "crashed"
             /\ released' = DestroyCrash(released, m_devices, n)
    /\ ubDone' = (ubDone \/ DoubleDeletes(released, m_devices) # {})
    /\ lastUpdate' = <<>>
    /\ UNCHANGED <<m_devices, m_to_remove, m_events, m_is_enabled, m_cursor_pos,
                   regOrder, removeCalls, strangerRemoved, registered, misadded, injected,
                   twin>>

---------------------------------------------------------------------------
(* Queries *)

\* int getEventsCount() const { return m_events.size(); }
getEventsCount == Len(m_events)

\* A pointer into an array: null, or at the element with this index (from 1).
nullptr == [null |-> TRUE, at |-> 0]

AddressOf(index) == [null |-> FALSE, at |-> index]

\* Mutant: the address of the first element whether or not there is one.
getEventsNeverNull == AddressOf(1)

\* const Event* getEvents() const { return m_events.empty() ? nullptr : &m_events[0]; }
getEvents == IF m_events = <<>> THEN nullptr ELSE AddressOf(1)

\* Mutant: the coordinates come back swapped.
getCursorPositionSwapped == <<m_cursor_pos[2], m_cursor_pos[1]>>

\* Vec2 getCursorPosition() const { return m_cursor_pos; }
getCursorPosition == m_cursor_pos

\* int getDevicesCount() const { return m_devices.size(); }
getDevicesCount == Len(m_devices)

\* Device* getDevice(int index) { return m_devices[index]; }   (index from 0)
getDevice(index) == m_devices[index + 1]

---------------------------------------------------------------------------
(* The caller *)

Next ==
    \/ \E enabled \in BOOLEAN : Enable(enabled)
    \/ \E pos \in CursorPositions : SetCursorPosition(pos)
    \/ \E event \in InjectableEvents : InjectEvent(event)
    \/ \E device \in External : NewDevice(device)
    \/ \E device \in External : AddDevice(device)
    \/ \E device \in Devices : RemoveDevice(device)
    \/ \E producers \in SUBSET External : Update(producers)
    \/ Destroy

Spec == Init /\ [][Next]_vars

---------------------------------------------------------------------------
(* Properties *)

Live == status \in {"running", "faulted"}

\* An update call has just returned.
UpdateReturned == lastUpdate # <<>> /\ status = "running"

\* The step is the call addDevice(device).
AddDeviceCalled(device) == regOrder' = Append(regOrder, device)

\* The step is a call removeDevice(device) that passed the assertions.
RemoveDeviceMarked(device) == removeCalls'[device] # removeCalls[device]

\* C1: the keyboard and the mouse are in the active device list in every state of
\* the live system and are never in the pending-removal list, and a removeDevice
\* call on either of them ends in the assertion fault, leaving the device list, the
\* pending-removal list and the event queue as they were (no mark, no
\* DEVICE_REMOVED event).
C1_BuiltInsStay ==
    /\ [](Live => /\ BuiltIns \subseteq Range(m_devices)
                  /\ BuiltIns \cap Range(m_to_remove) = {})
    /\ [][\A d \in BuiltIns :
            RemoveDevice(d) =>
                /\ status' = "faulted"
                /\ m_to_remove' = m_to_remove
                /\ m_events' = m_events
                /\ m_devices' = m_devices]_vars

\* The assertion fault, reached after a device was added, removed and finalized
\* and with events in the queue.
C1_Witness ==
    /\ status = "faulted"
    /\ Len(m_devices) > 2
    /\ \E d \in External : released[d] = 1
    /\ m_events # <<>>
    /\ BuiltIns \subseteq Range(m_devices)

\* The caller keeps to the registry's protocol: every device object is passed to
\* addDevice at most once, and removeDevice is called at most once per device, on a
\* device in the active list.
CallerKeepsProtocol ==
    /\ ~misadded
    /\ ~strangerRemoved
    /\ \A d \in Devices : removeCalls[d] <= 1

\* C2, second part: when update has returned, no removal is pending any more.
C2_NothingPendingAfterUpdate ==
    (CallerKeepsProtocol /\ UpdateReturned) => m_to_remove = <<>>

\* C2, third part: an update that directly follows an update (no removeDevice in
\* between) erases no device and releases no device.
C2_SecondUpdateReleasesNothing ==
    [][(CallerKeepsProtocol /\ lastUpdate # <<>> /\ lastUpdate' # <<>>) =>
            (released' = released /\ m_devices' = m_devices)]_vars

\* C2: a device marked by removeDevice is erased from the active list and released
\* by the next update call and by that call only: when update has returned, the
\* pending-removal list is empty, and an update that follows with no removeDevice
\* in between erases no device and releases no device.
C2_FinalizedByNextUpdateOnly ==
    /\ [][\A d \in External :
            (CallerKeepsProtocol /\ d \in Range(m_to_remove) /\ d \in Range(m_devices)
                /\ UpdateReturned') =>
                (d \notin Range(m_devices') /\ released'[d] = released[d] + 1)]_vars
    /\ []C2_NothingPendingAfterUpdate
    /\ C2_SecondUpdateReleasesNothing

\* C3: with every device added once and every registered device removed at most
\* once, no device is ever released twice, and once the system is destroyed every
\* device that was ever in the registry (the two built-ins and every added device)
\* has been released exactly once.
C3_ReleasedExactlyOnce ==
    CallerKeepsProtocol =>
        /\ \A d \in Devices : released[d] <= 1
        /\ status = "destroyed" =>
                \A d \in BuiltIns \cup Range(regOrder) : released[d] = 1

---------------------------------------------------------------------------
(* Helpers of the properties below *)

\* The devices that the pending-removal list takes out of the device list.
PendingInList(devices, to_remove) == Range(devices) \cap Range(to_remove)

IsPrefix(a, b) == Len(a) <= Len(b) /\ SubSeq(b, 1, Len(a)) = a

\* a is b with some elements left out, the others in their order.
RECURSIVE IsSubseq(_, _)
IsSubseq(a, b) ==
    IF a = <<>> THEN TRUE
    ELSE IF b = <<>> THEN FALSE
    ELSE IF Head(a) = Head(b) THEN IsSubseq(Tail(a), Tail(b))
    ELSE IsSubseq(a, Tail(b))

\* removeDevice(device) was called on the registered device and no update call
\* has been made since.
MarkedAndListed(device) ==
    /\ device \in Range(m_devices)
    /\ device \in Range(m_to_remove)
    /\ removeCalls[device] > 0

---------------------------------------------------------------------------

\* C4, first part: removeDevice(D) on a registered non-built-in device leaves the
\* device list as it was: the count is unchanged and D is at its former index.
C4_StillListedAfterRemove ==
    [][\A d \in External :
        (RemoveDeviceMarked(d) /\ d \in Range(m_devices)) =>
            (m_devices' = m_devices /\ MarkedAndListed(d)')]_vars

\* C4 as stated: after removeDevice(D) on a registered non-built-in device D the
\* device list is unchanged, and after the update call that follows the count is
\* one less and D is at no index.
C4_AsStated ==
    /\ C4_StillListedAfterRemove
    /\ [][\A d \in External :
            (CallerKeepsProtocol /\ MarkedAndListed(d) /\ UpdateReturned') =>
                /\ Len(m_devices') = Len(m_devices) - 1
                /\ d \notin Range(m_devices')]_vars

\* C4 amended: after removeDevice(D) on a registered non-built-in device D the
\* device list is unchanged; the update call that follows takes out of the list,
\* for every entry of the pending-removal list, the first index at which that
\* device is still listed, and keeps the others in their order: every device is
\* listed as many times less as it was pending (and not at all when it was pending at
\* least as often as listed), so D, listed once, is at no index, and the count has
\* dropped by one for each pending listed device, not by one in all.
C4_Amended ==
    /\ C4_StillListedAfterRemove
    /\ [][UpdateReturned' =>
            /\ \A d \in Devices :
                  Count(m_devices', d) =
                      IF Count(m_devices, d) > Count(m_to_remove, d)
                      THEN Count(m_devices, d) - Count(m_to_remove, d) ELSE 0
            /\ IsSubseq(m_devices', m_devices)
            /\ \A d \in External :
                  (MarkedAndListed(d) /\ Count(m_devices, d) = 1) =>
                        d \notin Range(m_devices')]_vars

\* Two registered devices were pending when update ran; both are gone, a third stays.
C4_Witness ==
    /\ UpdateReturned
    /\ Len(regOrder) = 3
    /\ Cardinality(Range(regOrder)) = 3
    /\ Len(m_devices) = 3
    /\ Cardinality({d \in External : <<"finalize", d>> \in Range(lastUpdate)}) = 2
    /\ \A d \in External : released[d] <= 1

\* C5: when update has returned, the queue holds nothing but what the devices
\* updated in that call produced (nothing when none produced): every event that was
\* queued before the call is gone.  The queue is cleared exactly once in the call,
\* after every finalization step and before every device update.
C5_QueueClearedByUpdate ==
    UpdateReturned =>
        /\ \E producers \in SUBSET External :
              m_events = UpdateEach(<<>>, m_devices, producers)
        /\ \A i \in 1 .. Len(m_events) :
              /\ m_events[i].type = "BUTTON"
              /\ m_events[i].device \in External \cap Range(m_devices)
        /\ Len(m_events) <= Len(m_devices) - Cardinality(BuiltIns)
        /\ (~injected => m_events = <<>>)
        /\ Count(lastUpdate, <<"clear">>) = 1
        /\ \A i, j \in 1 .. Len(lastUpdate) :
              /\ (lastUpdate[i][1] = "finalize" /\ lastUpdate[j][1] = "clear") => i < j
              /\ (lastUpdate[i][1] = "clear" /\ lastUpdate[j][1] = "update") => i < j

\* An update that finalized a removal (whose DEVICE_REMOVED event was queued
\* before it) and in which one device produced an event.
C5_Witness ==
    /\ UpdateReturned
    /\ \E d \in External : <<"finalize", d>> \in Range(lastUpdate) /\ released[d] = 1
    /\ Len(m_events) = 1

\* An update that finalized a removal and in which no device produced an event: the
\* queue is empty.
C5_WitnessEmpty ==
    /\ UpdateReturned
    /\ \E d \in External : <<"finalize", d>> \in Range(lastUpdate) /\ released[d] = 1
    /\ Len(m_devices) > 2
    /\ m_events = <<>>

\* C6: addDevice(D) makes the device count the previous count plus one, puts D at
\* the last index and leaves every device already listed at its index.
C6_AddAppends ==
    [][\A d \in External :
        AddDeviceCalled(d) =>
            /\ Len(m_devices') = Len(m_devices) + 1
            /\ m_devices'[Len(m_devices')] = d
            /\ \A i \in 1 .. Len(m_devices) : m_devices'[i] = m_devices[i]]_vars

\* A device added behind another external device while a removal is pending.
C6_Witness ==
    /\ regOrder # <<>>
    /\ m_devices[Len(m_devices)] = regOrder[Len(regOrder)]
    /\ m_events # <<>>
    /\ m_events[Len(m_events)] = DeviceAddedEvent(regOrder[Len(regOrder)])
    /\ Len(m_devices) = 4
    /\ m_to_remove # <<>>

\* C7: addDevice(D) appends exactly one DEVICE_ADDED event for D, and
\* removeDevice(D) exactly one DEVICE_REMOVED event for D, at the tail of the
\* queue; every call other than update leaves the events already queued in place
\* (the old queue is a prefix of the new one), so the queue lists the events in the
\* order of the calls; enable, setCursorPosition and the destructor leave the queue
\* as it is.
C7_QueueAppendOnly ==
    [][/\ \A d \in External :
            AddDeviceCalled(d) =>
                m_events' = Append(m_events, [type |-> "DEVICE_ADDED", device |-> d])
       /\ \A d \in External :
            RemoveDeviceMarked(d) =>
                m_events' = Append(m_events, [type |-> "DEVICE_REMOVED", device |-> d])
       /\ lastUpdate' = <<>> => IsPrefix(m_events, m_events')
       /\ (\/ m_is_enabled' # m_is_enabled
           \/ m_cursor_pos' # m_cursor_pos
           \/ status' = "destroyed") => m_events' = m_events]_vars

\* A device was added and then removed before any update: its two events are
\* queued in that order.
C7_Witness ==
    /\ lastUpdate = <<>>
    /\ status = "running"
    /\ \E d \in External :
          /\ MarkedAndListed(d)
          /\ m_events = <<[type |-> "DEVICE_ADDED", device |-> d],
                          [type |-> "DEVICE_REMOVED", device |-> d]>>

\* C8: for a caller that keeps to the protocol, an update call that returns has
\* taken these steps, in this order: one finalization per entry of the
\* pending-removal list, in list order; one clear of the queue; one update(dt) per
\* device left in the active list, in list order; one advance of the controller
\* source.  No device that was pending when update was called receives update(dt)
\* in that call, and none that has been released receives it in a later one.
C8_UpdateOrder ==
    /\ [][(CallerKeepsProtocol /\ UpdateReturned') =>
            /\ lastUpdate' =
                    [i \in 1 .. Len(m_to_remove) |-> <<"finalize", m_to_remove[i]>>]
                 \o <<<<"clear">>>>
                 \o [i \in 1 .. Len(m_devices') |-> <<"update", m_devices'[i]>>]
                 \o <<<<"frame">>>>
            /\ \A d \in Range(m_to_remove) : <<"update", d>> \notin Range(lastUpdate')
         ]_vars
    /\ [](CallerKeepsProtocol =>
            \A d \in Devices : released[d] > 0 => <<"update", d>> \notin Range(lastUpdate))

\* C9: the keyboard and the mouse are at the first two indices of the device list,
\* and the devices behind them are devices that were added, in the order in which
\* they were added: the list behind the built-ins is the sequence of the addDevice
\* arguments with some left out, none of them a device that was never marked by
\* removeDevice, so a finalization keeps the relative order of the devices that stay.
C9_RegistrationOrder ==
    /\ Len(m_devices) >= 2
    /\ m_devices[1] = m_keyboard_device
    /\ m_devices[2] = m_mouse_device
    /\ IsSubseq(SubSeq(m_devices, 3, Len(m_devices)), regOrder)
    /\ \A d \in Range(regOrder) : d \notin Range(m_to_remove) => d \in Range(m_devices)

\* Three devices were added and the second one was finalized: the first and the
\* third stay, in that order.
C9_Witness ==
    /\ UpdateReturned
    /\ Len(regOrder) = 3
    /\ Cardinality(Range(regOrder)) = 3
    /\ released[regOrder[2]] = 1
    /\ m_devices = <<m_keyboard_device, m_mouse_device, regOrder[1], regOrder[3]>>

\* C10: while the program runs, and as long as every queued event came from
\* addDevice or removeDevice, removeDevice was only called on registered devices
\* and every device object was passed to addDevice at most once, every queued event
\* references a device that is in the active list and has not been released.
C10_EventsReferenceLiveDevices ==
    (status = "running" /\ ~injected /\ ~strangerRemoved /\ ~misadded) =>
        \A i \in 1 .. Len(m_events) :
            /\ m_events[i].device \in Range(m_devices)
            /\ released[m_events[i].device] = 0

---------------------------------------------------------------------------

\* C11: setCursorPosition(pos) makes getCursorPosition() return pos and leaves the
\* device list, the pending-removal list and the event queue as they were; every
\* other call (addDevice, removeDevice, injectEvent, enable, update) leaves the
\* value getCursorPosition() returns as it was.  So getCursorPosition() returns
\* the last value passed to setCursorPosition, whatever was called since.
C11_CursorIsLastSet ==
    [][/\ \A pos \in CursorPositions :
            SetCursorPosition(pos) =>
                /\ getCursorPosition' = pos
                /\ UNCHANGED <<m_devices, m_to_remove, m_events, m_is_enabled>>
       /\ getCursorPosition' # getCursorPosition =>
            \E pos \in CursorPositions : SetCursorPosition(pos)]_vars

\* A cursor position that has been held across addDevice, removeDevice, enable and
\* an update that finalized a removal.
C11_Witness ==
    /\ getCursorPosition = <<3, 7>>
    /\ UpdateReturned
    /\ m_is_enabled
    /\ \E d \in External : released[d] = 1
    /\ Len(m_devices) > 2

---------------------------------------------------------------------------

\* The step is a call that enqueues the event: injectEvent(event), addDevice(D) with
\* its DEVICE_ADDED event or removeDevice(D) with its DEVICE_REMOVED event.
EnqueueCalled(event) ==
    \/ event \in InjectableEvents /\ InjectEvent(event)
    \/ event.type = "DEVICE_ADDED" /\ AddDeviceCalled(event.device)
    \/ event.type = "DEVICE_REMOVED" /\ RemoveDeviceMarked(event.device)

QueueableEvents ==
    InjectableEvents \cup {DeviceAddedEvent(d) : d \in External}
                     \cup {DeviceRemovedEvent(d) : d \in External}

\* The events that the devices of a list enqueue in one update, in list order, when
\* the devices in producers produce input.
Produced(devices, producers) ==
    LET producing == SelectSeq(devices, LAMBDA d : d \in producers)
    IN [i \in 1 .. Len(producing) |-> ButtonEvent(producing[i])]

\* C12, second part: getEvents() is the null view exactly when getEventsCount()
\* is zero, and otherwise points at the first element of the queue.
C12_NullViewIffEmpty ==
    /\ (getEvents = nullptr) <=> (getEventsCount = 0)
    /\ getEvents # nullptr => getEvents.at = 1

\* C12: getEventsCount() is the number of events enqueued since the queue was last
\* cleared: an enqueuing call adds one, any other call but update adds none, and
\* a returned update leaves the count of the events its devices produced after the
\* clear.  getEvents() is the null view exactly when that count is zero; otherwise
\* its first element is the oldest event of the frame: the first one enqueued into
\* the empty queue, which stays first until the next update.
C12_CountAndView ==
    /\ []C12_NullViewIffEmpty
    /\ [][/\ \A e \in QueueableEvents :
               EnqueueCalled(e) =>
                   /\ getEventsCount' = getEventsCount + 1
                   /\ getEventsCount = 0 => m_events'[getEvents'.at] = e
          /\ (lastUpdate' = <<>> /\ ~\E e \in QueueableEvents : EnqueueCalled(e)) =>
                   getEventsCount' = getEventsCount
          /\ (lastUpdate' = <<>> /\ getEventsCount > 0) =>
                   /\ getEvents' # nullptr
                   /\ m_events'[getEvents'.at] = m_events[getEvents.at]
          /\ UpdateReturned' =>
                   LET producers == {m_events'[i].device : i \in 1 .. Len(m_events')}
                   IN /\ producers \subseteq External \cap Range(m_devices')
                      /\ getEventsCount' =
                            Len(SelectSeq(m_devices', LAMBDA d : d \in producers))
                      /\ m_events' = Produced(m_devices', producers)]_vars

\* Two events enqueued in a frame that follows an update which cleared the queue
\* of an earlier frame.
C12_Witness ==
    /\ status = "running"
    /\ getEventsCount = 2
    /\ getEvents = AddressOf(1)
    /\ m_events[1].type = "DEVICE_ADDED"
    /\ \E d \in External : released[d] = 1

\* The queue of a frame in which no device produced an event: the view is null.
C12_WitnessNull ==
    /\ UpdateReturned
    /\ getEvents = nullptr
    /\ \E d \in External : released[d] = 1

---------------------------------------------------------------------------

\* The second system holds what this one holds.
TwinAgreesOnLists ==
    /\ twin.devices = m_devices
    /\ twin.to_remove = m_to_remove
    /\ twin.events = m_events

TwinAgreesOnCursor == twin.cursor_pos = m_cursor_pos

\* C13: the enabled flag has no effect.  This system, whatever enable calls it is
\* given, and the second system, which is given the same other calls and no enable
\* call at all, have the same device list, pending-removal list and event queue
\* after every step; when they hold the same cursor position before a step (the
\* constructor leaves the position to the memory of each) they hold the same after
\* it, and after a setCursorPosition call they hold the same in any case; an enable
\* call changes nothing but the flag of the system it is made on.  So two systems
\* that differ only in their enable calls both agree with the second system and
\* with each other.
C13_EnabledHasNoEffect ==
    /\ [](status = "running" => TwinAgreesOnLists)
    /\ [][/\ (status' = "running" /\ TwinAgreesOnCursor) => TwinAgreesOnCursor'
          /\ \A pos \in CursorPositions :
                SetCursorPosition(pos) => TwinAgreesOnCursor'
          /\ m_is_enabled' # m_is_enabled =>
                UNCHANGED <<m_devices, m_to_remove, m_events, m_cursor_pos, status,
                            released, twin>>]_vars

\* The two systems differ in the flag and agree on the rest, cursor position
\* included, after an update that finalized a removal and in which a device
\* produced an event.
C13_Witness ==
    /\ UpdateReturned
    /\ m_is_enabled # twin.is_enabled
    /\ TwinAgreesOnLists
    /\ TwinAgreesOnCursor
    /\ m_events # <<>>
    /\ \E d \in External : released[d] = 1

---------------------------------------------------------------------------

\* addDevice(device) and then removeDevice(device) were the only enqueuing calls of
\* the frame: the queue holds their two events and nothing else.
AddedAndRemoved(device) ==
    m_events = <<DeviceAddedEvent(device), DeviceRemovedEvent(device)>>

\* Every device object was passed to addDevice at most once (spec 4.1 leaves that
\* to the caller) and no call so far has executed undefined behaviour.
DefinedSoFar == ~misadded /\ ~ubDone

---------------------------------------------------------------------------

\* The DEVICE_REMOVED events of the queue, in queue order.
RemovedInQueue == SelectSeq(m_events, LAMBDA e : e.type = "DEVICE_REMOVED")

\* Every entry of the pending-removal list was put there in the current frame: the
\* queue, cleared by every update, still holds the DEVICE_REMOVED event of each.
AllMarkedInThisFrame ==
    m_to_remove = [i \in 1 .. Len(RemovedInQueue) |-> RemovedInQueue[i].device]

\* C15: removeDevice is safe against repetition and strangers: an update whose
\* pending-removal list holds only entries put there by the removeDevice calls of
\* the frame (none left over from an earlier update), whatever those calls were,
\* releases each device at most once and releases only devices that are in the
\* device list.
C15_RemoveIsSafe ==
    [][(lastUpdate' # <<>> /\ AllMarkedInThisFrame) =>
            \A d \in Devices :
                /\ released'[d] <= released[d] + 1
                /\ released'[d] > released[d] => d \in Range(m_devices)]_vars

====
